---- MODULE Spec2Model ----
(***************************************************************************)
(* Model of the Bounty static file server (src/Bounty/src/main.rs).        *)
(*                                                                         *)
(* Text is modelled as sequences of bytes (0..255), filesystem paths as    *)
(* byte strings that are resolved component by component against a small   *)
(* filesystem image, and the process as the accept loop of main driving    *)
(* handle_connection through its steps.                                    *)
(***************************************************************************)
EXTENDS Integers, Sequences, FiniteSets, TLC

VARIABLES
    pc,        \* position of the process: accept loop, handler step, or terminated
    fs,        \* the filesystem image (never written by the program)
    cwd,       \* the process working directory, as returned by current_dir()
    conn,      \* number of connections accepted so far
    raw,       \* bytes the client sent on the current connection
    req,       \* method and path parsed from the handler's read buffer
    target,    \* absolute_path computed by the handler (byte string)
    pending,   \* status of the error response chosen by the dispatcher
    wire,      \* chunks written to the current connection, in order
    log,       \* operations performed for the current connection, in order
    phases,    \* handler states passed for the current connection, in order
    result,    \* outcome of handle_connection: "none", "Ok", "Err"
    cause,     \* why the process terminated: "none", "accept", "handler", "panic"
    prev,      \* what was sent and received on the connection before a repeated request
    codec      \* a text on its way through the path codec: encode_path, then decode_url_encoded

vars == <<pc, fs, cwd, conn, raw, req, target, pending, wire, log, phases, result, cause,
          prev, codec>>

(***************************************************************************)
(* Bounds of the model.                                                    *)
(***************************************************************************)
MaxConns == 2
MaxLinkDepth == 4
\* longest text, in characters, put through the path codec
MaxTextLen == 3

\* let mut buffer = [0; 1024];
BufSize == 1024

(***************************************************************************)
(* Bytes and text.                                                         *)
(***************************************************************************)
\* ASCII characters in code order: from the space (32) to the underscore, and
\* from the letter a (97) to the tilde.
Symbols == <<
    " ", "!", "\"", "#", "$", "%", "&", "'", "(", ")", "*", "+", ",", "-", ".", "/",
    "0", "1", "2", "3", "4", "5", "6", "7", "8", "9", ":", ";", "<", "=", ">", "?",
    "@", "A", "B", "C", "D", "E", "F", "G", "H", "I", "J", "K", "L", "M", "N", "O",
    "P", "Q", "R", "S", "T", "U", "V", "W", "X", "Y", "Z", "[", "\\", "]", "^", "_">>

Letters == <<
    "a", "b", "c", "d", "e", "f", "g", "h", "i", "j", "k", "l", "m", "n", "o", "p",
    "q", "r", "s", "t", "u", "v", "w", "x", "y", "z", "{", "|", "}", "~">>

Ord ==
    [c \in {Symbols[i] : i \in DOMAIN Symbols} |->
        31 + (CHOOSE i \in DOMAIN Symbols : Symbols[i] = c)] @@
    [c \in {Letters[i] : i \in DOMAIN Letters} |->
        96 + (CHOOSE i \in DOMAIN Letters : Letters[i] = c)] @@
    ("\t" :> 9) @@ ("\n" :> 10) @@ ("\r" :> 13)

\* The bytes of a text given as a tuple of one-character strings.
S(chars) == [i \in 1..Len(chars) |-> Ord[chars[i]]]

RECURSIVE Concat(_)
Concat(ss) == IF ss = <<>> THEN <<>> ELSE Head(ss) \o Concat(Tail(ss))

Drop(s, n) == SubSeq(s, n + 1, Len(s))
Take(s, n) == SubSeq(s, 1, n)

IsPrefix(p, s) == Len(p) <= Len(s) /\ Take(s, Len(p)) = p

Min(set) == CHOOSE m \in set : \A n \in set : m <= n

(***************************************************************************)
(* Path Codec: percent_encoding::{utf8_percent_encode, percent_decode} and *)
(* String::from_utf8_lossy, as the handler uses them.                      *)
(***************************************************************************)
IsAsciiAlnum(b) == (48 <= b /\ b <= 57) \/ (65 <= b /\ b <= 90) \/ (97 <= b /\ b <= 122)

\* Upper-case hexadecimal digit of a nibble.
HexDigit(n) == IF n < 10 THEN 48 + n ELSE 55 + n

IsHex(b) == (48 <= b /\ b <= 57) \/ (65 <= b /\ b <= 70) \/ (97 <= b /\ b <= 102)

HexVal(b) == IF b <= 57 THEN b - 48 ELSE IF b <= 70 THEN b - 55 ELSE b - 87

\* (variant: an encode set that leaves the percent sign and the separator alone)
EncodeByteKeepingPercent(b) ==
    IF IsAsciiAlnum(b) \/ b \in {37, 47} THEN <<b>>
    ELSE <<37, HexDigit(b \div 16), HexDigit(b % 16)>>

\* NON_ALPHANUMERIC: every byte that is not an ASCII letter or digit becomes %XX.
EncodeByte(b) == IF IsAsciiAlnum(b) THEN <<b>> ELSE <<37, HexDigit(b \div 16), HexDigit(b % 16)>>

RECURSIVE encode_path(_)
encode_path(s) == IF s = <<>> THEN <<>> ELSE EncodeByte(Head(s)) \o encode_path(Tail(s))

\* percent_decode: %XX with two hex digits is one byte; any other byte passes
\* through.  The two digits of an escape are never the start of another one.
PercentDecode(s) ==
    LET escapes == {i \in 1..Len(s) : s[i] = 37 /\ i + 2 <= Len(s) /\ IsHex(s[i + 1]) /\ IsHex(s[i + 2])}
        marked == [i \in 1..Len(s) |->
                      [keep |-> (i - 1) \notin escapes /\ (i - 2) \notin escapes,
                       byte |-> IF i \in escapes THEN 16 * HexVal(s[i + 1]) + HexVal(s[i + 2])
                                ELSE s[i]]]
        kept == SelectSeq(marked, LAMBDA m : m.keep)
    IN [j \in 1..Len(kept) |-> kept[j].byte]

IsCont(s, i) == i <= Len(s) /\ 128 <= s[i] /\ s[i] <= 191

InRange(s, i, lo, hi) == i <= Len(s) /\ lo <= s[i] /\ s[i] <= hi

\* The chunk at the head of s: a valid scalar value of n bytes, or an invalid
\* sequence of n bytes that lossy decoding replaces by U+FFFD.
Utf8Chunk(s) ==
    LET b == s[1] IN
    IF b < 128 THEN [valid |-> TRUE, n |-> 1]
    ELSE IF 194 <= b /\ b <= 223
         THEN IF IsCont(s, 2) THEN [valid |-> TRUE, n |-> 2] ELSE [valid |-> FALSE, n |-> 1]
    ELSE IF 224 <= b /\ b <= 239
         THEN LET lo == IF b = 224 THEN 160 ELSE 128
                  hi == IF b = 237 THEN 159 ELSE 191
              IN IF ~InRange(s, 2, lo, hi) THEN [valid |-> FALSE, n |-> 1]
                 ELSE IF ~IsCont(s, 3) THEN [valid |-> FALSE, n |-> 2]
                 ELSE [valid |-> TRUE, n |-> 3]
    ELSE IF 240 <= b /\ b <= 244
         THEN LET lo == IF b = 240 THEN 144 ELSE 128
                  hi == IF b = 244 THEN 143 ELSE 191
              IN IF ~InRange(s, 2, lo, hi) THEN [valid |-> FALSE, n |-> 1]
                 ELSE IF ~IsCont(s, 3) THEN [valid |-> FALSE, n |-> 2]
                 ELSE IF ~IsCont(s, 4) THEN [valid |-> FALSE, n |-> 3]
                 ELSE [valid |-> TRUE, n |-> 4]
    ELSE [valid |-> FALSE, n |-> 1]

RECURSIVE Utf8LossyFrom(_)
Utf8LossyFrom(s) ==
    IF s = <<>> THEN <<>>
    ELSE LET c == Utf8Chunk(s) IN
         (IF c.valid THEN Take(s, c.n) ELSE <<239, 191, 189>>) \o Utf8LossyFrom(Drop(s, c.n))

\* from_utf8_lossy / decode_utf8_lossy: the text unchanged up to its first
\* non-ASCII byte, the rest decoded chunk by chunk.
Utf8Lossy(s) ==
    LET high == {i \in 1..Len(s) : s[i] >= 128} IN
    IF high = {} THEN s
    ELSE LET k == Min(high) IN Take(s, k - 1) \o Utf8LossyFrom(Drop(s, k - 1))

decode_url_encoded(path) == Utf8Lossy(PercentDecode(path))

\* str::is_char_boundary
IsCharBoundary(s, index) ==
    \/ index = 0
    \/ index = Len(s)
    \/ index < Len(s) /\ ~(128 <= s[index + 1] /\ s[index + 1] <= 191)

(***************************************************************************)
(* Request Line Parser.                                                    *)
(***************************************************************************)
\* split_whitespace: the White_Space characters of the ASCII range.
IsWhitespace(b) == b \in {9, 10, 11, 12, 13, 32}

\* request.lines().next().unwrap_or(""): the text before the first line feed,
\* without the carriage return that precedes it.
FirstLine(text) ==
    LET lf == {i \in 1..Len(text) : text[i] = 10} IN
    IF text = <<>> THEN <<>>
    ELSE IF lf = {} THEN text
    ELSE LET k == Min(lf)
             line == Take(text, k - 1)
         IN IF line # <<>> /\ line[Len(line)] = 13 THEN Take(line, Len(line) - 1) ELSE line

\* The next whitespace-delimited field of line at or after position from:
\* [tok, next], tok empty when there is none (unwrap_or("")).
NextField(line, from) ==
    LET starts == {i \in from..Len(line) : ~IsWhitespace(line[i])} IN
    IF starts = {} THEN [tok |-> <<>>, next |-> Len(line) + 1]
    ELSE LET b == Min(starts)
             stops == {i \in b..Len(line) : IsWhitespace(line[i])}
             e == IF stops = {} THEN Len(line) + 1 ELSE Min(stops)
         IN [tok |-> SubSeq(line, b, e - 1), next |-> e]

parse_request_line(request_line) ==
    LET first == NextField(request_line, 1)
        second == NextField(request_line, first.next)
    IN [method |-> first.tok, path |-> second.tok]

(***************************************************************************)
(* Paths (std::path) over byte strings.                                    *)
(***************************************************************************)
\* The fields of s between separators, empty fields included.
RECURSIVE Split(_)
Split(s) ==
    LET seps == {i \in 1..Len(s) : s[i] = 47} IN
    IF seps = {} THEN <<s>>
    ELSE LET k == Min(seps) IN <<Take(s, k - 1)>> \o Split(Drop(s, k))

IsAbsolute(s) == s # <<>> /\ s[1] = 47

\* Path::join (PathBuf::push): an absolute argument replaces the base.
Join(base, rel) ==
    IF IsAbsolute(rel) THEN rel
    ELSE IF base # <<>> /\ base[Len(base)] = 47 THEN base \o rel
    ELSE base \o <<47>> \o rel

\* Path::components of an absolute path: repeated separators and "." are dropped.
Components(s) == SelectSeq(Split(s), LAMBDA c : c # <<>> /\ c # <<46>>)

\* (variant: a prefix test on the text of the paths)
StartsWithBytes(p, base) ==
    LET flat(cs) == Concat([i \in 1..Len(cs) |-> <<47>> \o cs[i]])
    IN IsPrefix(flat(base), flat(p))

\* Path::starts_with: whole components of p match base.
StartsWith(p, base) == IsPrefix(base, p)

\* Path::strip_prefix followed by display(): the components of p after base.
StripPrefix(p, base) ==
    LET cs == Drop(Components(p), Len(Components(base)))
    IN IF ~IsPrefix(Components(base), Components(p)) THEN [ok |-> FALSE, path |-> <<>>]
       ELSE [ok |-> TRUE,
             path |-> IF cs = <<>> THEN <<>>
                      ELSE Head(cs) \o Concat([i \in 1..Len(cs) - 1 |-> <<47>> \o cs[i + 1]])]

(***************************************************************************)
(* The filesystem: a function from canonical paths (sequences of names) to *)
(* nodes.  The program only reads it.                                      *)
(***************************************************************************)
Dir(entries, readable) ==
    [kind |-> "dir", entries |-> entries, content |-> <<>>, link |-> <<>>, readable |-> readable]
File(content, readable) ==
    [kind |-> "file", entries |-> <<>>, content |-> content, link |-> <<>>, readable |-> readable]
Symlink(link) ==
    [kind |-> "symlink", entries |-> <<>>, content |-> <<>>, link |-> link, readable |-> TRUE]
Special ==
    [kind |-> "special", entries |-> <<>>, content |-> <<>>, link |-> <<>>, readable |-> TRUE]

nSrv == S(<<"s", "r", "v">>)
nSrvx == S(<<"s", "r", "v", "x">>)
nEtc == S(<<"e", "t", "c">>)
nPw == S(<<"p", "w">>)
nFavicon == S(<<"f", "a", "v", "i", "c", "o", "n", ".", "i", "c", "o">>)
\* a name of one two-byte character
nUni == <<195, 169>>
\* a name holding a space
nSpaced == S(<<"a", " ", "b">>)

PngBytes == <<137, 80, 78, 71, 13>>
ShortPng == <<137, 80, 78>>
GifBytes == <<71, 73, 70, 56>>
JpegBytes == <<255, 216, 255, 224>>
TextBytes == S(<<"h", "i">>)

RootEntries == <<S(<<"a">>), S(<<"b">>), S(<<"l">>), S(<<"i">>), S(<<"f">>), S(<<"s">>),
                 S(<<"d">>), nUni>>

BaseFS ==
    (<<>> :> Dir(<<nEtc, nSrv, nSrvx>>, TRUE)) @@
    (<<nEtc>> :> Dir(<<nPw>>, TRUE)) @@
    (<<nEtc, nPw>> :> File(S(<<"r", "o", "o", "t">>), TRUE)) @@
    (<<nSrvx>> :> Dir(<<S(<<"q">>)>>, TRUE)) @@
    (<<nSrvx, S(<<"q">>)>> :> File(S(<<"o", "u", "t">>), TRUE)) @@
    (<<nSrv>> :> Dir(RootEntries, TRUE)) @@
    (<<nSrv, S(<<"a">>)>> :> File(TextBytes, TRUE)) @@
    (<<nSrv, S(<<"b">>)>> :> Dir(<<S(<<"p">>), S(<<"n">>), S(<<"g">>), S(<<"k">>), nSpaced>>, TRUE)) @@
    (<<nSrv, S(<<"b">>), S(<<"p">>)>> :> File(PngBytes, TRUE)) @@
    (<<nSrv, S(<<"b">>), S(<<"n">>)>> :> File(ShortPng, TRUE)) @@
    (<<nSrv, S(<<"b">>), S(<<"g">>)>> :> File(GifBytes, TRUE)) @@
    (<<nSrv, S(<<"b">>), S(<<"k">>)>> :> Dir(<<S(<<"x">>)>>, TRUE)) @@
    (<<nSrv, S(<<"b">>), S(<<"k">>), S(<<"x">>)>> :> File(JpegBytes, TRUE)) @@
    (<<nSrv, S(<<"b">>), nSpaced>> :> File(<<>>, TRUE)) @@
    (<<nSrv, S(<<"l">>)>> :> Symlink(<<47>> \o nEtc)) @@
    (<<nSrv, S(<<"i">>)>> :> Symlink(S(<<"b">>))) @@
    (<<nSrv, S(<<"f">>)>> :> Special) @@
    (<<nSrv, S(<<"s">>)>> :> File(TextBytes, FALSE)) @@
    (<<nSrv, S(<<"d">>)>> :> Dir(<<S(<<"x">>)>>, FALSE)) @@
    (<<nSrv, S(<<"d">>), S(<<"x">>)>> :> File(TextBytes, TRUE)) @@
    (<<nSrv, nUni>> :> File(TextBytes, TRUE))

\* The same tree with a file named favicon.ico in the served directory.
FaviconFS ==
    (<<nSrv>> :> Dir(RootEntries \o <<nFavicon>>, TRUE)) @@
    (<<nSrv, nFavicon>> :> File(GifBytes, TRUE)) @@
    BaseFS

Filesystems == {BaseFS, FaviconFS}

\* realpath(3): resolve comps one by one from the canonical directory cur.
RECURSIVE Resolve(_, _, _, _)
Resolve(f, cur, comps, depth) ==
    IF comps = <<>> THEN [ok |-> TRUE, path |-> cur, err |-> "none"]
    ELSE LET c == Head(comps)
             rest == Tail(comps)
             next == Append(cur, c)
         IN IF f[cur].kind # "dir" THEN [ok |-> FALSE, path |-> <<>>, err |-> "NotADirectory"]
            ELSE IF c = <<>> \/ c = <<46>> THEN Resolve(f, cur, rest, depth)
            ELSE IF c = <<46, 46>>
                 THEN Resolve(f, IF cur = <<>> THEN cur ELSE Take(cur, Len(cur) - 1), rest, depth)
            ELSE IF next \notin DOMAIN f THEN [ok |-> FALSE, path |-> <<>>, err |-> "NotFound"]
            ELSE IF f[next].kind = "symlink"
                 THEN IF depth = 0 THEN [ok |-> FALSE, path |-> <<>>, err |-> "FilesystemLoop"]
                      ELSE Resolve(f, IF IsAbsolute(f[next].link) THEN <<>> ELSE cur,
                                   Split(f[next].link) \o rest, depth - 1)
            ELSE Resolve(f, next, rest, depth)

\* Path::canonicalize of an absolute path; a path holding a NUL byte is
\* rejected before the system call.
canonicalize(f, path) ==
    IF \E i \in 1..Len(path) : path[i] = 0
    THEN [ok |-> FALSE, path |-> <<>>, err |-> "InvalidInput"]
    ELSE Resolve(f, <<>>, Split(path), MaxLinkDepth)

\* Path::is_dir / Path::is_file: metadata of the entry the path leads to,
\* symlinks followed; false when the path cannot be resolved.
is_dir(f, path) == LET r == canonicalize(f, path) IN r.ok /\ f[r.path].kind = "dir"
\* (variant: whatever exists and is not a directory counts as a file)
is_file_or_special(f, path) == LET r == canonicalize(f, path) IN r.ok /\ f[r.path].kind # "dir"

is_file(f, path) == LET r == canonicalize(f, path) IN r.ok /\ f[r.path].kind = "file"

(***************************************************************************)
(* Content sniffing (infer::get): the signatures the model's files use.    *)
(***************************************************************************)
\* (variant: no signature is ever recognised)
InferNone(content) == "application/octet-stream"

InferGet(content) ==
    IF Len(content) > 3 /\ Take(content, 4) = <<137, 80, 78, 71>> THEN "image/png"
    ELSE IF Len(content) > 2 /\ Take(content, 3) = <<255, 216, 255>> THEN "image/jpeg"
    ELSE IF Len(content) > 2 /\ Take(content, 3) = <<71, 73, 70>> THEN "image/gif"
    ELSE "application/octet-stream"

(***************************************************************************)
(* Response Writer: what one write_all puts on the connection.             *)
(***************************************************************************)
\* (variant: the length is counted in characters, not bytes)
ResponseCountingChars(status, content_type, body) ==
    [kind |-> "response", status |-> status, content_type |-> content_type,
     content_length |-> Len(SelectSeq(body, LAMBDA b : b < 128 \/ b >= 192)), body |-> body]

\* send_response: status line, Content-Type, Content-Length, blank line, body.
Response(status, content_type, body) ==
    [kind |-> "response", status |-> status, content_type |-> content_type,
     content_length |-> Len(body), body |-> body]

\* send_file_content writes the head and the content separately.
FileHead(content_type, content_length) ==
    [kind |-> "head", status |-> "200 OK", content_type |-> content_type,
     content_length |-> content_length, body |-> <<>>]

FileBody(content) ==
    [kind |-> "body", status |-> "", content_type |-> "", content_length |-> 0, body |-> content]

\* The body sent with each error status.
ErrorBody(status) ==
    CASE status = "404 Not Found" -> S(<<"N", "o", "t", " ", "F", "o", "u", "n", "d">>)
      [] status = "405 Method Not Allowed" -> S(<<"M", "e", "t", "h", "o", "d", " ", "N", "o", "t", " ", "A", "l", "l", "o", "w", "e", "d">>)
      [] status = "403 Forbidden" -> S(<<"F", "o", "r", "b", "i", "d", "d", "e", "n">>)
      [] status = "500 Internal Server Error" -> S(<<"I", "n", "t", "e", "r", "n", "a", "l", " ", "S", "e", "r", "v", "e", "r", " ", "E", "r", "r", "o", "r">>)

\* The status and content-type strings as the bytes format! puts out.
StatusText(status) ==
    CASE status = "200 OK" -> S(<<"2", "0", "0", " ", "O", "K">>)
      [] status = "403 Forbidden" -> S(<<"4", "0", "3", " ">>) \o ErrorBody(status)
      [] status = "404 Not Found" -> S(<<"4", "0", "4", " ">>) \o ErrorBody(status)
      [] status = "405 Method Not Allowed" -> S(<<"4", "0", "5", " ">>) \o ErrorBody(status)
      [] status = "500 Internal Server Error" -> S(<<"5", "0", "0", " ">>) \o ErrorBody(status)

TypeText(content_type) ==
    CASE content_type = "text/html" -> S(<<"t", "e", "x", "t", "/", "h", "t", "m", "l">>)
      [] content_type = "image/png" -> S(<<"i", "m", "a", "g", "e", "/", "p", "n", "g">>)
      [] content_type = "image/jpeg" -> S(<<"i", "m", "a", "g", "e", "/", "j", "p", "e", "g">>)
      [] content_type = "image/gif" -> S(<<"i", "m", "a", "g", "e", "/", "g", "i", "f">>)
      [] content_type = "application/octet-stream" ->
            S(<<"a", "p", "p", "l", "i", "c", "a", "t", "i", "o", "n", "/",
                "o", "c", "t", "e", "t", "-", "s", "t", "r", "e", "a", "m">>)

\* {} of a usize: its decimal digits.
RECURSIVE Decimal(_)
Decimal(n) == IF n < 10 THEN <<48 + n>> ELSE Decimal(n \div 10) \o <<48 + (n % 10)>>

CRLF == <<13, 10>>

\* "HTTP/1.1 {}\r\nContent-Type: {}\r\nContent-Length: {}\r\n\r\n"
FormatHead(status, content_type, content_length) ==
    S(<<"H", "T", "T", "P", "/", "1", ".", "1", " ">>) \o StatusText(status) \o CRLF
    \o S(<<"C", "o", "n", "t", "e", "n", "t", "-", "T", "y", "p", "e", ":", " ">>)
    \o TypeText(content_type) \o CRLF
    \o S(<<"C", "o", "n", "t", "e", "n", "t", "-", "L", "e", "n", "g", "t", "h", ":", " ">>)
    \o Decimal(content_length) \o CRLF \o CRLF

\* The bytes one write_all passes to the stream.
WriteBytes(chunk) ==
    CASE chunk.kind = "response" ->
            FormatHead(chunk.status, chunk.content_type, chunk.content_length) \o chunk.body
      [] chunk.kind = "head" ->
            FormatHead(chunk.status, chunk.content_type, chunk.content_length)
      [] chunk.kind = "body" -> chunk.body

(***************************************************************************)
(* Directory Lister.                                                       *)
(***************************************************************************)
HtmlOpen == S(<<"<", "!", "D", "O", "C", "T", "Y", "P", "E", " ", "h", "t", "m", "l", ">", "<", "h", "t", "m", "l", ">", "<", "h", "e", "a", "d", ">", "<", "m", "e", "t", "a", " ", "c", "h", "a", "r", "s", "e", "t", "=", "\"", "u", "t", "f", "-", "8", "\"", ">", "<", "/", "h", "e", "a", "d", ">", "<", "b", "o", "d", "y", ">">>)
H1Open == S(<<"<", "h", "1", ">", "D", "i", "r", "e", "c", "t", "o", "r", "y", " ", "l", "i", "s", "t", "i", "n", "g", " ", "f", "o", "r", " ">>)
H1Close == S(<<"<", "/", "h", "1", ">">>)
AnchorOpen == S(<<"<", "a", " ", "h", "r", "e", "f", "=", "\"">>)
AnchorMid == S(<<"\"", ">">>)
AnchorClose == S(<<"<", "/", "a", ">", "<", "b", "r", ">">>)
HtmlClose == S(<<"<", "/", "b", "o", "d", "y", ">", "<", "/", "h", "t", "m", "l", ">">>)

\* WalkDir::new(path).max_depth(1).min_depth(1): the immediate children of the
\* directory the path leads to, or an error when it cannot be read.
WalkDir(f, path) ==
    LET r == canonicalize(f, path) IN
    IF ~r.ok \/ f[r.path].kind # "dir" \/ ~f[r.path].readable
    THEN [ok |-> FALSE, entries |-> <<>>]
    ELSE [ok |-> TRUE,
          entries |-> [i \in 1..Len(f[r.path].entries) |->
                          [path |-> Join(path, f[r.path].entries[i]),
                           file_name |-> f[r.path].entries[i]]]]

\* (variant: the separator is appended to the link only)
DirSuffixHrefOnly(isDir) == [href |-> IF isDir THEN <<47>> ELSE <<>>, label |-> <<>>]

\* The trailing separator of a listed child, for the link and for the label.
DirSuffix(isDir) ==
    [href |-> IF isDir THEN <<47>> ELSE <<>>, label |-> IF isDir THEN <<47>> ELSE <<>>]

\* One anchor of the listing (the body of the for loop).
Anchor(f, path, entry) ==
    LET file_path == StripPrefix(entry.path, path).path
        encoded_file_path == encode_path(file_path)
        suffix == DirSuffix(is_dir(f, entry.path))
    IN AnchorOpen \o encoded_file_path \o suffix.href \o AnchorMid
       \o entry.file_name \o suffix.label \o AnchorClose

ListingBody(f, path, entries) ==
    HtmlOpen \o H1Open \o decode_url_encoded(path) \o H1Close
    \o Concat([i \in 1..Len(entries) |-> Anchor(f, path, entries[i])])
    \o HtmlClose

(***************************************************************************)
(* Requests the clients of the model send.                                 *)
(***************************************************************************)
Methods == {S(<<"G", "E", "T">>), S(<<"P", "O", "S", "T">>), S(<<"H", "E", "A", "D">>)}

Targets == {
    S(<<"/">>),
    S(<<"/", "a">>),
    S(<<"/", "b">>),
    S(<<"/", "b", "/">>),
    S(<<"/", "b", "/", "p">>),
    S(<<"/", "b", "/", "n">>),
    S(<<"/", "b", "/", "g">>),
    S(<<"/", "b", "/", "k">>),
    S(<<"/", "b", "/", "a", "%", "2", "0", "b">>),
    S(<<"/", "b", "/", ".", ".", "/", "a">>),
    S(<<"/", "x">>),
    S(<<"/", "a", "/">>),
    S(<<"/", ".", ".", "/", "e", "t", "c", "/", "p", "w">>),
    S(<<"/", "%", "2", "E", "%", "2", "E", "/", "e", "t", "c">>),
    S(<<"/", "/", "e", "t", "c", "/", "p", "w">>),
    S(<<"/", "/", "e", "t", "c", "/", ".", ".", "/", "s", "r", "v", "/", "a">>),
    S(<<"/", "l">>),
    S(<<"/", "l", "/", "p", "w">>),
    S(<<"/", "i">>),
    S(<<"/", "i", "/", "p">>),
    S(<<"/", ".", ".", "/", "s", "r", "v", "x", "/", "q">>),
    S(<<"/", ".", ".", "/", "s", "r", "v">>),
    S(<<"/", "f">>),
    S(<<"/", "s">>),
    S(<<"/", "d">>),
    S(<<"/", "f", "a", "v", "i", "c", "o", "n", ".", "i", "c", "o">>),
    S(<<"/", "f", "a", "v", "i", "c", "o", "n", "%", "2", "E", "i", "c", "o">>),
    S(<<"/", "%", "C", "3", "%", "A", "9">>),
    S(<<"%", "C", "3", "%", "A", "9">>),
    S(<<"a">>),
    S(<<"/", "%", "F", "F">>),
    S(<<"/", "%", "z", "z">>)}

\* Request lines that are not of the form METHOD SP TARGET CRLF, the request
\* of a client that sends nothing among them.
OddRequests == {
    <<>>,
    S(<<"G", "E", "T">>),
    S(<<"G", "E", "T", "\r", "\n">>),
    S(<<"P", "O", "S", "T", "\r", "\n">>),
    S(<<"\r", "\n">>),
    S(<<" ", "\r", "\n">>),
    S(<<"G", "E", "T", " ", "/", "a">>),
    S(<<"G", "E", "T", " ", " ", "/", "b", "/", "p", "\t", "H", "T", "T", "P", "/", "1", ".", "1", "\r", "\n", "H", "o", "s", "t", ":", " ", "x", "\r", "\n", "\r", "\n">>),
    S(<<"g", "e", "t", " ", "/", "a", "\r", "\n">>)}

Requests == {m \o <<32>> \o tg \o <<13, 10>> : m \in Methods, tg \in Targets} \cup OddRequests

(***************************************************************************)
(* handle_connection, lines 28-64: from the bytes read to the branch taken.*)
(***************************************************************************)
\* stream.read(&mut buffer) into a zeroed buffer of BufSize bytes.
ReadBuffer(bytes) ==
    LET n == IF Len(bytes) < BufSize THEN Len(bytes) ELSE BufSize
    IN [i \in 1..BufSize |-> IF i <= n THEN bytes[i] ELSE 0]

\* Lines 31-33: the method and path of the first line of the buffer.
ParseBuffer(buf) == parse_request_line(FirstLine(Utf8Lossy(buf)))

FaviconPath == S(<<"/", "f", "a", "v", "i", "c", "o", "n", ".", "i", "c", "o">>)
GetMethod == S(<<"G", "E", "T">>)

\* (variant: the comparison misses the leading separator)
IsFaviconNoSlash(path) == path = Drop(FaviconPath, 1)

IsFavicon(path) == path = FaviconPath

\* (variant: the method is compared without regard to case)
MethodAllowedNoCase(method) ==
    method = GetMethod \/ method = [i \in 1..Len(GetMethod) |-> GetMethod[i] + 32]

MethodAllowed(method) == method = GetMethod

\* &decoded_path[1..] panics when index 1 is past the end or inside a character.
SlicePanics(decoded_path) ==
    decoded_path # <<47>> /\ (Len(decoded_path) < 1 \/ ~IsCharBoundary(decoded_path, 1))

ResourcePath(decoded_path) == IF decoded_path = <<47>> THEN <<>> ELSE Drop(decoded_path, 1)

\* (variant: containment is tested on the joined path, before resolution)
is_path_within_unresolved(f, c, path) ==
    [ok |-> canonicalize(f, path).ok,
     value |-> StartsWith(Components(path), Components(c))]

is_path_within_current_directory(f, c, path) ==
    LET current_dir == c
        abs_path == canonicalize(f, path)
    IN [ok |-> abs_path.ok,
        value |-> abs_path.ok /\ StartsWith(abs_path.path, Components(current_dir))]

\* The branch handle_connection takes for a parsed request: the next handler
\* state, the status of the rejection if any, absolute_path, and the
\* operations performed on the way, in order.  current_dir() is taken to
\* succeed: the process never changes or removes its working directory.
Route(f, c, method, path) ==
    IF IsFavicon(path)
    THEN [next |-> "Rejecting", pending |-> "404 Not Found", target |-> <<>>, ops |-> <<>>]
    ELSE IF ~MethodAllowed(method)
    THEN [next |-> "Rejecting", pending |-> "405 Method Not Allowed", target |-> <<>>, ops |-> <<>>]
    ELSE LET decoded_path == decode_url_encoded(path) IN
         IF SlicePanics(decoded_path)
         THEN [next |-> "panicked", pending |-> "none", target |-> <<>>, ops |-> <<>>]
         ELSE LET absolute_path == Join(c, ResourcePath(decoded_path))
                  within == is_path_within_current_directory(f, c, absolute_path)
                  checked == <<"current_dir", "current_dir", "canonicalize">>
              IN IF ~within.ok
                 THEN [next |-> "Failed", pending |-> "none", target |-> absolute_path,
                       ops |-> checked]
                 ELSE IF ~within.value
                 THEN [next |-> "Rejecting", pending |-> "403 Forbidden",
                       target |-> absolute_path, ops |-> checked]
                 ELSE IF is_dir(f, absolute_path)
                 THEN [next |-> "ListingDirectory", pending |-> "none",
                       target |-> absolute_path, ops |-> checked \o <<"is_dir">>]
                 ELSE IF is_file(f, absolute_path)
                 THEN [next |-> "ServingFile", pending |-> "none",
                       target |-> absolute_path, ops |-> checked \o <<"is_dir", "is_file">>]
                 ELSE [next |-> "Rejecting", pending |-> "404 Not Found",
                       target |-> absolute_path, ops |-> checked \o <<"is_dir", "is_file">>]

(***************************************************************************)
(* The process: the accept loop of main and the steps of handle_connection.*)
(***************************************************************************)
NoRequest == [method |-> <<>>, path |-> <<>>]

\* Before the first connection there is no earlier one.
NoConnection == [raw |-> <<>>, wire |-> <<>>, result |-> "none"]

\* The codec at rest: no text is being converted.
CodecIdle == [step |-> "idle", text |-> <<>>, encoded |-> <<>>, decoded |-> <<>>]

Init ==
    /\ pc = "accept"
    /\ fs \in Filesystems
    /\ cwd = <<47>> \o nSrv
    /\ conn = 0
    /\ raw = <<>>
    /\ req = NoRequest
    /\ target = <<>>
    /\ pending = "none"
    /\ wire = <<>>
    /\ log = <<>>
    /\ phases = <<>>
    /\ result = "none"
    /\ cause = "none"
    /\ prev = NoConnection
    /\ codec = CodecIdle

\* (variant: the next connection is taken while the current one is still
\* being answered)
AcceptEarly ==
    /\ pc \in {"accept", "Rejecting", "ListingDirectory", "ServingFile"}
    /\ conn < MaxConns
    /\ \E r \in Requests : raw' = r
    /\ conn' = conn + 1
    /\ pc' = "ReadingRequest"
    /\ phases' = <<"ReadingRequest">>
    /\ req' = NoRequest
    /\ target' = <<>>
    /\ pending' = "none"
    /\ wire' = <<>>
    /\ log' = <<>>
    /\ result' = "none"
    /\ UNCHANGED <<codec, prev, fs, cwd, cause>>

\* main, lines 19-21: the listener yields a connection and the handler starts.
Accept ==
    /\ pc = "accept"
    /\ conn < MaxConns
    /\ \E r \in Requests : raw' = r
    /\ conn' = conn + 1
    /\ pc' = "ReadingRequest"
    /\ phases' = <<"ReadingRequest">>
    /\ req' = NoRequest
    /\ target' = <<>>
    /\ pending' = "none"
    /\ wire' = <<>>
    /\ log' = <<>>
    /\ result' = "none"
    /\ UNCHANGED <<codec, prev, fs, cwd, cause>>

\* main, line 20: the listener yields an error, which main returns.
AcceptFail ==
    /\ pc = "accept"
    /\ conn < MaxConns
    /\ pc' = "exited"
    /\ cause' = "accept"
    /\ UNCHANGED <<codec, prev, fs, cwd, conn, raw, req, target, pending, wire, log, phases, result>>

\* handle_connection, lines 28-33: the read succeeds and the first line is parsed.
ReadRequest ==
    /\ pc = "ReadingRequest"
    /\ req' = ParseBuffer(ReadBuffer(raw))
    /\ log' = Append(log, "read")
    /\ pc' = "Dispatching"
    /\ phases' = Append(phases, "Dispatching")
    /\ UNCHANGED <<codec, prev, fs, cwd, conn, raw, target, pending, wire, result, cause>>

\* handle_connection, line 29: the read fails and the error is returned.
ReadFail ==
    /\ pc = "ReadingRequest"
    /\ log' = Append(log, "read")
    /\ pc' = "Failed"
    /\ result' = "Err"
    /\ UNCHANGED <<codec, prev, fs, cwd, conn, raw, req, target, pending, wire, phases, cause>>

\* (variant: the handler makes a listed directory the working directory)
DispatchChangingDir ==
    /\ pc = "Dispatching"
    /\ LET r == Route(fs, cwd, req.method, req.path) IN
        /\ pc' = r.next
        /\ pending' = r.pending
        /\ target' = r.target
        /\ cwd' = IF r.next = "ListingDirectory"
                  THEN <<47>> \o Concat([i \in 1..Len(canonicalize(fs, r.target).path) |->
                            canonicalize(fs, r.target).path[i] \o
                            (IF i < Len(canonicalize(fs, r.target).path) THEN <<47>> ELSE <<>>)])
                  ELSE cwd
        /\ log' = log \o r.ops
        /\ phases' = IF r.next \in {"Rejecting", "ListingDirectory", "ServingFile"}
                     THEN Append(phases, r.next) ELSE phases
        /\ result' = IF r.next = "Failed" THEN "Err" ELSE result
        /\ cause' = IF r.next = "panicked" THEN "panic" ELSE cause
    /\ UNCHANGED <<codec, prev, fs, conn, raw, req, wire>>

\* handle_connection, lines 35-64: the branch is chosen.
Dispatch ==
    /\ pc = "Dispatching"
    /\ LET r == Route(fs, cwd, req.method, req.path) IN
        /\ pc' = r.next
        /\ pending' = r.pending
        /\ target' = r.target
        /\ log' = log \o r.ops
        /\ phases' = IF r.next \in {"Rejecting", "ListingDirectory", "ServingFile"}
                     THEN Append(phases, r.next) ELSE phases
        /\ result' = IF r.next = "Failed" THEN "Err" ELSE result
        /\ cause' = IF r.next = "panicked" THEN "panic" ELSE cause
    /\ UNCHANGED <<codec, prev, fs, cwd, conn, raw, req, wire>>

\* send_response, lines 141-152, for the rejections of lines 36, 41, 54 and 63.
Reject ==
    /\ pc = "Rejecting"
    /\ \E written \in BOOLEAN :
        IF written
        THEN /\ wire' = Append(wire, Response(pending, "text/html", ErrorBody(pending)))
             /\ log' = log \o <<"write", "flush">>
             /\ pc' = "Responded"
             /\ phases' = Append(phases, "Responded")
             /\ result' = "Ok"
        ELSE /\ wire' = wire
             /\ log' = Append(log, "write")
             /\ pc' = "Failed"
             /\ phases' = phases
             /\ result' = "Err"
    /\ UNCHANGED <<codec, prev, fs, cwd, conn, raw, req, target, pending, cause>>

\* (variant: the head of the listing is written before the directory is
\* enumerated)
ListDirectoryStreaming ==
    /\ pc = "ListingDirectory"
    /\ LET walk == WalkDir(fs, target)
           tests == [i \in 1..Len(walk.entries) |-> "is_dir"]
           response == ListingBody(fs, target, walk.entries)
       IN IF ~walk.ok
          THEN /\ wire' = Append(wire, FileHead("text/html", 0))
               /\ log' = log \o <<"write", "read_dir">>
               /\ pc' = "Failed"
               /\ phases' = phases
               /\ result' = "Err"
          ELSE \E written \in BOOLEAN :
               IF written
               THEN /\ wire' = Append(wire, Response("200 OK", "text/html", response))
                    /\ log' = log \o <<"write", "read_dir">> \o tests \o <<"write", "flush">>
                    /\ pc' = "Responded"
                    /\ phases' = Append(phases, "Responded")
                    /\ result' = "Ok"
               ELSE /\ wire' = wire
                    /\ log' = log \o <<"write">>
                    /\ pc' = "Failed"
                    /\ phases' = phases
                    /\ result' = "Err"
    /\ UNCHANGED <<codec, prev, fs, cwd, conn, raw, req, target, pending, cause>>

\* send_directory_listing, lines 83-112.
ListDirectory ==
    /\ pc = "ListingDirectory"
    /\ LET walk == WalkDir(fs, target)
           tests == [i \in 1..Len(walk.entries) |-> "is_dir"]
           response == ListingBody(fs, target, walk.entries)
       IN IF ~walk.ok
          THEN /\ wire' = wire
               /\ log' = Append(log, "read_dir")
               /\ pc' = "Failed"
               /\ phases' = phases
               /\ result' = "Err"
          ELSE \E written \in BOOLEAN :
               IF written
               THEN /\ wire' = Append(wire, Response("200 OK", "text/html", response))
                    /\ log' = log \o <<"read_dir">> \o tests \o <<"write", "flush">>
                    /\ pc' = "Responded"
                    /\ phases' = Append(phases, "Responded")
                    /\ result' = "Ok"
               ELSE /\ wire' = wire
                    /\ log' = log \o <<"read_dir">> \o tests \o <<"write">>
                    /\ pc' = "Failed"
                    /\ phases' = phases
                    /\ result' = "Err"
    /\ UNCHANGED <<codec, prev, fs, cwd, conn, raw, req, target, pending, cause>>

\* fs::read(path): the whole content of the file the path leads to.
FsRead(f, path) ==
    LET r == canonicalize(f, path) IN
    IF r.ok /\ f[r.path].kind = "file" /\ f[r.path].readable
    THEN [ok |-> TRUE, content |-> f[r.path].content]
    ELSE [ok |-> FALSE, content |-> <<>>]

\* (variant: the error of fs::read is returned with `?` instead of being
\* answered with 500)
ServeFilePropagating ==
    /\ pc = "ServingFile"
    /\ LET read == FsRead(fs, target)
           content_type == InferGet(read.content)
           content_length == Len(read.content)
       IN IF ~read.ok
          THEN /\ wire' = wire
               /\ log' = Append(log, "fs_read")
               /\ pc' = "Failed"
               /\ phases' = phases
               /\ result' = "Err"
          ELSE \E written \in 0..2 :
               /\ wire' = CASE written = 0 -> wire
                            [] written = 1 -> Append(wire, FileHead(content_type, content_length))
                            [] written = 2 -> wire \o <<FileHead(content_type, content_length),
                                                        FileBody(read.content)>>
               /\ log' = log \o (CASE written = 0 -> <<"fs_read", "write">>
                                   [] written = 1 -> <<"fs_read", "write", "write">>
                                   [] written = 2 -> <<"fs_read", "write", "write", "flush">>)
               /\ pc' = IF written = 2 THEN "Responded" ELSE "Failed"
               /\ phases' = IF written = 2 THEN Append(phases, "Responded") ELSE phases
               /\ result' = IF written = 2 THEN "Ok" ELSE "Err"
    /\ UNCHANGED <<codec, prev, fs, cwd, conn, raw, req, target, pending, cause>>

\* send_file_content, lines 114-138; written counts the write_all calls that succeed.
ServeFile ==
    /\ pc = "ServingFile"
    /\ LET read == FsRead(fs, target)
           content_type == InferGet(read.content)
           content_length == Len(read.content)
       IN IF ~read.ok
          THEN \E written \in BOOLEAN :
               /\ wire' = IF written
                          THEN Append(wire, Response("500 Internal Server Error", "text/html",
                                                    ErrorBody("500 Internal Server Error")))
                          ELSE wire
               /\ log' = log \o (IF written THEN <<"fs_read", "write", "flush">>
                                 ELSE <<"fs_read", "write">>)
               /\ pc' = IF written THEN "Responded" ELSE "Failed"
               /\ phases' = IF written THEN Append(phases, "Responded") ELSE phases
               /\ result' = IF written THEN "Ok" ELSE "Err"
          ELSE \E written \in 0..2 :
               /\ wire' = CASE written = 0 -> wire
                            [] written = 1 -> Append(wire, FileHead(content_type, content_length))
                            [] written = 2 -> wire \o <<FileHead(content_type, content_length),
                                                        FileBody(read.content)>>
               /\ log' = log \o (CASE written = 0 -> <<"fs_read", "write">>
                                   [] written = 1 -> <<"fs_read", "write", "write">>
                                   [] written = 2 -> <<"fs_read", "write", "write", "flush">>)
               /\ pc' = IF written = 2 THEN "Responded" ELSE "Failed"
               /\ phases' = IF written = 2 THEN Append(phases, "Responded") ELSE phases
               /\ result' = IF written = 2 THEN "Ok" ELSE "Err"
    /\ UNCHANGED <<codec, prev, fs, cwd, conn, raw, req, target, pending, cause>>

\* main, lines 21-22: the handler returned Ok, the stream is dropped (closed)
\* and the loop goes back to the listener.
Close ==
    /\ pc = "Responded"
    /\ pc' = "accept"
    /\ UNCHANGED <<codec, prev, fs, cwd, conn, raw, req, target, pending, wire, log, phases, result, cause>>

\* main, line 21: the handler returned Err, which main returns: the process ends.
Propagate ==
    /\ pc = "Failed"
    /\ pc' = "exited"
    /\ cause' = "handler"
    /\ UNCHANGED <<codec, prev, fs, cwd, conn, raw, req, target, pending, wire, log, phases, result>>

Next ==
    \/ Accept
    \/ AcceptFail
    \/ ReadRequest
    \/ ReadFail
    \/ Dispatch
    \/ Reject
    \/ ListDirectory
    \/ ServeFile
    \/ Close
    \/ Propagate

Spec == Init /\ [][Next]_vars

(***************************************************************************)
(* A client that repeats its request: the listener yields a connection on  *)
(* which the bytes of the previous connection are sent again, the          *)
(* filesystem being what it was.  What the previous connection carried is  *)
(* kept for comparison.                                                    *)
(***************************************************************************)
AcceptRepeat ==
    /\ pc = "accept"
    /\ 1 <= conn /\ conn < MaxConns
    /\ prev' = [raw |-> raw, wire |-> wire, result |-> result]
    /\ raw' = raw
    /\ conn' = conn + 1
    /\ pc' = "ReadingRequest"
    /\ phases' = <<"ReadingRequest">>
    /\ req' = NoRequest
    /\ target' = <<>>
    /\ pending' = "none"
    /\ wire' = <<>>
    /\ log' = <<>>
    /\ result' = "none"
    /\ UNCHANGED <<codec, fs, cwd, cause>>

NextRepeat == Next \/ AcceptRepeat

SpecRepeat == Init /\ [][NextRepeat]_vars


(***************************************************************************)
(* Vocabulary of the properties.                                           *)
(***************************************************************************)
\* The dispatcher has run for the current connection.
Dispatched == Len(phases) >= 3 \/ (Len(phases) = 2 /\ pc # "Dispatching")

\* The handler of the current connection has ended: it returned or it panicked.
Finished == result \in {"Ok", "Err"} \/ cause = "panic"

\* The handler ended because a write to the connection failed.
WriteFailed == result = "Err" /\ log # <<>> /\ log[Len(log)] = "write"

\* The handler tried to resolve absolute_path.
Attempted == \E i \in 1..Len(log) : log[i] = "canonicalize"

FsOps == {"current_dir", "canonicalize", "is_dir", "is_file", "fs_read", "read_dir"}

Canon == canonicalize(fs, target)

\* The canonical path p is the served directory or lies under it.
InsideRoot(p) == Len(p) >= 1 /\ p[1] = nSrv

\* The connection carries exactly the error response of the given status.
Answered(status) == wire = <<Response(status, "text/html", ErrorBody(status))>>

IsGetRequest == req.method = GetMethod /\ req.path # FaviconPath

\* Contents of the regular files that lie outside the served directory.
OutsideContents ==
    {fs[p].content : p \in {q \in DOMAIN fs : fs[q].kind = "file" /\ ~InsideRoot(q)}}

(***************************************************************************)
(* C1 (stated as claimed; the code violates it): no failure inside         *)
(* handle_connection - a failed read, a failed path resolution, a failed   *)
(* directory enumeration, a failed write, a panic - ends the process; the  *)
(* accept loop keeps running.                                              *)
(***************************************************************************)
C1_ListenerSurvivesHandlerFailure ==
    (result = "Err" \/ cause \in {"handler", "panic"}) => pc \notin {"exited", "panicked"}

(***************************************************************************)
(* C2: sandbox containment.  Every 200 OK on the connection was produced   *)
(* for a path whose canonical form is the root or lies under it, no body   *)
(* on the connection is the content of a file outside the root, and a      *)
(* target that does not resolve into the root ends as Forbidden (403) or   *)
(* as a failed resolution (NotFound), never in file serving or listing.    *)
(***************************************************************************)
C2_SandboxContainment ==
    /\ \A i \in 1..Len(wire) :
        /\ wire[i].status = "200 OK" => Canon.ok /\ InsideRoot(Canon.path)
        /\ wire[i].body \notin OutsideContents
    /\ (Attempted /\ ~(Canon.ok /\ InsideRoot(Canon.path))) =>
        /\ pc \notin {"ListingDirectory", "ServingFile"}
        /\ \/ Canon.ok /\ pending = "403 Forbidden"
           \/ ~Canon.ok /\ result = "Err" /\ wire = <<>>

\* A traversal target outside the root was answered 403.
C2_Witness ==
    /\ pc = "Responded"
    /\ target = cwd \o S(<<"/", ".", ".", "/", "e", "t", "c", "/", "p", "w">>)
    /\ Canon.ok /\ ~InsideRoot(Canon.path)
    /\ Answered("403 Forbidden")

(***************************************************************************)
(* C3 (stated as claimed; the code violates it): a GET whose target names  *)
(* no filesystem entry, so that canonicalization fails, is answered with   *)
(* 404 Not Found (unless the write to the connection fails).               *)
(***************************************************************************)
C3_MissingFileAnswered404 ==
    (Finished /\ IsGetRequest /\ Attempted /\ ~Canon.ok /\ Canon.err = "NotFound")
        => (Answered("404 Not Found") \/ WriteFailed)

(***************************************************************************)
(* C4: a GET whose target resolves to an existing entry whose canonical    *)
(* path is not the root nor under it is rejected with 403 Forbidden (the   *)
(* response on the connection unless the write fails), and 403 is chosen   *)
(* exactly in that case: the test is on the canonical path, so a joined    *)
(* path that leaves the root textually but resolves into it is served, and *)
(* one that stays under the root textually but resolves out of it is not.  *)
(***************************************************************************)
C4_EscapeIsForbidden ==
    /\ (Attempted /\ Canon.ok /\ ~InsideRoot(Canon.path)) =>
        /\ pending = "403 Forbidden"
        /\ Finished => (Answered("403 Forbidden") \/ WriteFailed)
    /\ pending = "403 Forbidden" => (Attempted /\ Canon.ok /\ ~InsideRoot(Canon.path))

\* A sibling directory whose name extends the root's name was answered 403.
C4_Witness ==
    /\ pc = "Responded"
    /\ target = cwd \o S(<<"/", ".", ".", "/", "s", "r", "v", "x", "/", "q">>)
    /\ Canon.ok /\ Canon.path = <<nSrvx, S(<<"q">>)>>
    /\ Answered("403 Forbidden")

(***************************************************************************)
(* C5: a request whose target is exactly /favicon.ico is rejected with 404 *)
(* Not Found whatever its method and whether or not the file exists; the   *)
(* response is chosen before the method check and before any filesystem    *)
(* operation (it is the response on the connection unless the write fails).*)
(***************************************************************************)
C5_FaviconAlways404 ==
    (Dispatched /\ req.path = FaviconPath) =>
        /\ pending = "404 Not Found"
        /\ \A i \in 1..Len(log) : log[i] \notin FsOps
        /\ Finished => (Answered("404 Not Found") \/ WriteFailed)

\* A POST for /favicon.ico, with the file present in the root, was answered 404.
C5_Witness ==
    /\ pc = "Responded"
    /\ req.path = FaviconPath
    /\ req.method # GetMethod
    /\ <<nSrv, nFavicon>> \in DOMAIN fs
    /\ Answered("404 Not Found")

(***************************************************************************)
(* C6: a request whose method is not GET and whose target is not           *)
(* /favicon.ico is rejected with 405 Method Not Allowed (the response on   *)
(* the connection unless the write fails), and no filesystem operation is  *)
(* performed for it, whatever its target.                                  *)
(***************************************************************************)
C6_NonGetIs405 ==
    (Dispatched /\ req.method # GetMethod /\ req.path # FaviconPath) =>
        /\ pending = "405 Method Not Allowed"
        /\ target = <<>>
        /\ \A i \in 1..Len(log) : log[i] \notin FsOps
        /\ Finished => (Answered("405 Method Not Allowed") \/ WriteFailed)

\* A POST for a target that escapes the root was answered 405.
C6_Witness ==
    /\ pc = "Responded"
    /\ req.method = S(<<"P", "O", "S", "T">>)
    /\ req.path = S(<<"/", ".", ".", "/", "e", "t", "c", "/", "p", "w">>)
    /\ Answered("405 Method Not Allowed")

(***************************************************************************)
(* C7 (stated as claimed; the code violates it): a request whose first     *)
(* line yields no method or no target is answered with 404 Not Found       *)
(* (unless the write to the connection fails).                             *)
(***************************************************************************)
C7_MalformedAnswered404 ==
    (Finished /\ Len(phases) >= 2 /\ (req.method = <<>> \/ req.path = <<>>))
        => (Answered("404 Not Found") \/ WriteFailed)

\* The connection carries one whole response: a send_response write, or the
\* head and the content written by send_file_content.
OneResponse ==
    \/ Len(wire) = 1 /\ wire[1].kind = "response"
    \/ Len(wire) = 2 /\ wire[1].kind = "head" /\ wire[2].kind = "body"

(***************************************************************************)
(* C8 (stated as claimed; the code violates it): once the request has been *)
(* read, the handler passes ReadingRequest, Dispatching, exactly one of    *)
(* ServingFile, ListingDirectory and Rejecting, then Responded, and has    *)
(* written exactly one response when it ends (unless a write to the        *)
(* connection fails).                                                      *)
(***************************************************************************)
C8_OneRequestOneResponse ==
    (Finished /\ Len(phases) >= 2 /\ ~WriteFailed) =>
        /\ Len(phases) = 4
        /\ phases[1] = "ReadingRequest"
        /\ phases[2] = "Dispatching"
        /\ phases[3] \in {"ServingFile", "ListingDirectory", "Rejecting"}
        /\ phases[4] = "Responded"
        /\ OneResponse

(***************************************************************************)
(* Vocabulary of the listing and file-serving properties.                  *)
(***************************************************************************)
\* The target of the current request resolves to an entry of this kind
\* inside the root.
ResolvesInside(kind) ==
    IsGetRequest /\ Attempted /\ Canon.ok /\ InsideRoot(Canon.path) /\ fs[Canon.path].kind = kind

\* The entry a child of the listed directory leads to is a directory.
ChildIsDirectory(name) ==
    LET r == Resolve(fs, Canon.path, <<name>>, MaxLinkDepth) IN r.ok /\ fs[r.path].kind = "dir"

\* The anchor the claim describes for one child.
ExpectedAnchor(name) ==
    LET slash == IF ChildIsDirectory(name) THEN <<47>> ELSE <<>>
    IN AnchorOpen \o encode_path(name) \o slash \o AnchorMid \o name \o slash \o AnchorClose

\* One anchor per immediate child of the listed directory, and nothing else
\* between the heading and the end of the document.
ExpectedListing ==
    LET children == fs[Canon.path].entries IN
    HtmlOpen \o H1Open \o decode_url_encoded(target) \o H1Close
    \o Concat([i \in 1..Len(children) |-> ExpectedAnchor(children[i])])
    \o HtmlClose

ListingAnswered ==
    \/ wire = <<Response("200 OK", "text/html", ExpectedListing)>>
    \/ WriteFailed

\* C9 (stated as claimed; the code violates it): every GET for a directory inside the root is answered with
\* 200 OK and the listing (unless the write to the connection fails).
C9_EveryDirectoryListed ==
    (Finished /\ ResolvesInside("dir")) => ListingAnswered

\* C9 (amended): a GET for a directory inside the root whose children can be
\* enumerated is answered with 200 OK and an HTML body holding exactly one
\* anchor per immediate child, the href being the percent-encoded child name,
\* with a trailing slash on href and label if and only if the child is a
\* directory (unless the write to the connection fails); when the enumeration
\* fails nothing is written and the handler returns the error.
C9_ListingAnchors ==
    (Finished /\ ResolvesInside("dir")) =>
        IF fs[Canon.path].readable THEN ListingAnswered
        ELSE wire = <<>> /\ result = "Err"

\* The directory b, with files, a sub-directory holding a file of its own and
\* a name that needs encoding, was listed.
C9_Witness ==
    /\ pc = "Responded"
    /\ ResolvesInside("dir")
    /\ Canon.path = <<nSrv, S(<<"b">>)>>
    /\ \E i \in 1..Len(fs[Canon.path].entries) : ChildIsDirectory(fs[Canon.path].entries[i])
    /\ \E i \in 1..Len(fs[Canon.path].entries) : fs[Canon.path].entries[i] = nSpaced
    /\ wire = <<Response("200 OK", "text/html", ExpectedListing)>>

\* The content starts with the signature.
HasSignature(content, sig) == Len(content) > Len(sig) - 1 /\ Take(content, Len(sig)) = sig

PngSignature == <<137, 80, 78, 71>>

KnownSignatures == {PngSignature, <<255, 216, 255>>, <<71, 73, 70>>}

(***************************************************************************)
(* C10: a GET for a readable regular file inside the root is answered with *)
(* 200 OK, a Content-Length and a body that are those of the file's        *)
(* content, and a Content-Type sniffed from the content: image/png for the *)
(* PNG signature, application/octet-stream when no signature matches       *)
(* (unless a write to the connection fails).                               *)
(***************************************************************************)
C10_FileServed ==
    (Finished /\ ResolvesInside("file") /\ fs[Canon.path].readable) =>
        \/ WriteFailed
        \/ LET content == fs[Canon.path].content IN
            /\ Len(wire) = 2
            /\ wire[1].kind = "head"
            /\ wire[1].status = "200 OK"
            /\ wire[1].content_length = Len(content)
            /\ HasSignature(content, PngSignature) => wire[1].content_type = "image/png"
            /\ (\A sig \in KnownSignatures : ~HasSignature(content, sig))
                    => wire[1].content_type = "application/octet-stream"
            /\ wire[2] = FileBody(content)

\* A PNG file was served as image/png with its bytes as the body.
C10_Witness ==
    /\ pc = "Responded"
    /\ ResolvesInside("file")
    /\ fs[Canon.path].content = PngBytes
    /\ wire = <<FileHead("image/png", Len(PngBytes)), FileBody(PngBytes)>>

(***************************************************************************)
(* Vocabulary of the repetition property.                                  *)
(***************************************************************************)
\* The request was sent on the previous connection too, and both handlers
\* returned Ok.
Repeated == prev # NoConnection /\ raw = prev.raw /\ result = "Ok"

\* The second of two identical GET requests got the bytes the first one got.
RepeatedResponseIdentical ==
    (Repeated /\ req.method = GetMethod) => wire = prev.wire

\* Handling a GET request that was read, names a target and whose writes
\* succeeded leaves the process running.
StillAcceptingAfterGet ==
    (req.method = GetMethod /\ req.path # <<>> /\ Len(phases) >= 2 /\ ~WriteFailed)
        => cause \notin {"handler", "panic"}

(***************************************************************************)
(* C11 (stated as claimed; the code violates it): the same GET request     *)
(* issued on two successive connections, the filesystem unchanged, yields  *)
(* byte-identical responses, and handling the first changes nothing the    *)
(* second depends on, the server's readiness to accept it included.        *)
(***************************************************************************)
C11_Idempotent == RepeatedResponseIdentical /\ StillAcceptingAfterGet

\* A listing was sent twice, byte for byte.
RepeatedListing ==
    /\ Repeated
    /\ req.method = GetMethod
    /\ wire = prev.wire
    /\ Len(wire) = 1 /\ wire[1].status = "200 OK"

\* The handler of the current connection read the request, answered it with
\* one whole response and returned.
FullyServiced ==
    /\ result = "Ok"
    /\ Len(phases) = 4
    /\ phases[4] = "Responded"
    /\ OneResponse

(***************************************************************************)
(* C12: the server is strictly sequential.  A connection is accepted only  *)
(* from the accept loop, and, when it is not the first, only after the     *)
(* connection before it was read, answered and closed; every step between  *)
(* two accepts belongs to the one connection being handled.                *)
(***************************************************************************)
C12_StrictlySequential ==
    [][/\ conn' # conn => (pc = "accept" /\ conn' = conn + 1 /\ (conn > 0 => FullyServiced))
       /\ (conn' = conn /\ pc # "accept") => raw' = raw]_vars

\* A second connection is being read after the first one was closed.
C12_Witness == conn = 2 /\ pc = "ReadingRequest"

(***************************************************************************)
(* C13: when the target resolves inside the root to a regular file whose   *)
(* content cannot be read, the handler chooses 500 Internal Server Error   *)
(* (the response on the connection unless the write fails), writes no byte *)
(* of a 200 OK response, and, the write done, returns Ok: the error of the *)
(* read is not passed on and the process goes on accepting connections.    *)
(***************************************************************************)
C13_UnreadableFileIs500 ==
    (Finished /\ ResolvesInside("file") /\ ~fs[Canon.path].readable) =>
        /\ \A i \in 1..Len(wire) : wire[i].status # "200 OK"
        /\ \/ WriteFailed
           \/ /\ Answered("500 Internal Server Error")
              /\ result = "Ok"
              /\ cause \notin {"handler", "panic"}
              /\ pc \in {"Responded", "accept", "exited"}

\* The unreadable file s was answered with 500 and the accept loop took over again.
C13_Witness ==
    /\ pc = "accept"
    /\ conn = 1
    /\ ResolvesInside("file")
    /\ Canon.path = <<nSrv, S(<<"s">>)>>
    /\ ~fs[Canon.path].readable
    /\ Answered("500 Internal Server Error")

(***************************************************************************)
(* The path codec on its own: a text is encoded by encode_path and the     *)
(* result decoded by decode_url_encoded.  The texts are the valid UTF-8    *)
(* strings of up to MaxTextLen characters over CodecChars.                 *)
(***************************************************************************)
\* Characters of one to four bytes: a, 2, 5, the percent sign, the space, the
\* separator, U+00E9, U+20AC and U+1F600.
CodecChars ==
    {<<97>>, <<50>>, <<53>>, <<37>>, <<32>>, <<47>>,
     <<195, 169>>, <<226, 130, 172>>, <<240, 159, 152, 128>>}

RECURSIVE TextsUpTo(_)
TextsUpTo(n) ==
    IF n = 0 THEN {<<>>}
    ELSE LET shorter == TextsUpTo(n - 1)
         IN shorter \cup {tx \o c : tx \in shorter, c \in CodecChars}

CodecInit ==
    /\ pc = "accept"
    /\ fs = BaseFS
    /\ cwd = <<47>> \o nSrv
    /\ conn = 0
    /\ raw = <<>>
    /\ req = NoRequest
    /\ target = <<>>
    /\ pending = "none"
    /\ wire = <<>>
    /\ log = <<>>
    /\ phases = <<>>
    /\ result = "none"
    /\ cause = "none"
    /\ prev = NoConnection
    /\ \E tx \in TextsUpTo(MaxTextLen) :
        codec = [step |-> "text", text |-> tx, encoded |-> <<>>, decoded |-> <<>>]

\* encode_path, lines 154-156.
CodecEncode ==
    /\ codec.step = "text"
    /\ codec' = [codec EXCEPT !.step = "encoded", !.encoded = encode_path(codec.text)]
    /\ UNCHANGED <<pc, fs, cwd, conn, raw, req, target, pending, wire, log, phases, result,
                   cause, prev>>

\* decode_url_encoded, lines 158-160.
CodecDecode ==
    /\ codec.step = "encoded"
    /\ codec' = [codec EXCEPT !.step = "decoded", !.decoded = decode_url_encoded(codec.encoded)]
    /\ UNCHANGED <<pc, fs, cwd, conn, raw, req, target, pending, wire, log, phases, result,
                   cause, prev>>

CodecNext == CodecEncode \/ CodecDecode

SpecCodec == CodecInit /\ [][CodecNext]_vars

(***************************************************************************)
(* C14: round trip of the path codec.  For every valid UTF-8 text s,       *)
(* decode_url_encoded(encode_path(s)) = s, and the encoded form holds only *)
(* ASCII letters, digits and %XX escapes.                                  *)
(***************************************************************************)
C14_RoundTrip ==
    /\ codec.step = "decoded" => codec.decoded = codec.text
    /\ codec.step \in {"encoded", "decoded"} =>
        \A i \in 1..Len(codec.encoded) :
            \/ IsAsciiAlnum(codec.encoded[i])
            \/ /\ codec.encoded[i] = 37
               /\ i + 2 <= Len(codec.encoded)
               /\ IsHex(codec.encoded[i + 1]) /\ IsHex(codec.encoded[i + 2])

\* The text %25 followed by nothing, and a text of a percent sign and a
\* two-byte character, came back unchanged.
C14_Witness ==
    /\ codec.step = "decoded"
    /\ codec.text \in {<<37, 50, 53>>, <<37, 195, 169>>}
    /\ codec.encoded # codec.text
    /\ codec.decoded = codec.text

\* The enumeration of the directory the target leads to fails.
EnumerationFails == ResolvesInside("dir") /\ ~WalkDir(fs, target).ok

(***************************************************************************)
(* C15: no partial response.  On every connection all filesystem           *)
(* operations of the request (canonicalization, entry-type tests, file     *)
(* read, directory enumeration) come before the first write to the         *)
(* connection; and when the enumeration of a directory fails, nothing has  *)
(* been written: the handler returns the error and the connection is       *)
(* dropped with zero bytes on it.                                          *)
(***************************************************************************)
C15_NoPartialResponse ==
    /\ \A i \in 1..Len(log) : \A j \in 1..Len(log) :
        (log[i] = "write" /\ i < j) => log[j] \notin FsOps
    /\ (Finished /\ EnumerationFails) =>
        /\ wire = <<>>
        /\ result = "Err"
        /\ log[Len(log)] = "read_dir"
        /\ \A i \in 1..Len(log) : log[i] # "write"

\* The unreadable directory /d was requested: the handler failed in the
\* enumeration with nothing written.
C15_Witness ==
    /\ pc = "Failed"
    /\ EnumerationFails
    /\ Canon.path = <<nSrv, S(<<"d">>)>>
    /\ wire = <<>>
    /\ log[Len(log)] = "read_dir"

(***************************************************************************)
(* C16 (stated as claimed; the code violates it): absent fields never      *)
(* crash the handler.  For every request line without a target - the line  *)
(* GET alone included - the handler does not panic and completes with a    *)
(* 404 Not Found or a 405 Method Not Allowed response (unless the write to *)
(* the connection fails).                                                  *)
(***************************************************************************)
C16_AbsentTargetNeverCrashes ==
    (Dispatched /\ req.path = <<>>) =>
        /\ cause # "panic"
        /\ pc # "panicked"
        /\ Finished =>
            \/ Answered("404 Not Found")
            \/ Answered("405 Method Not Allowed")
            \/ WriteFailed

\* The relative path the derivation is claimed to give: the decoded target
\* without one leading separator, if it has one.
StripOneSeparator(decoded_path) ==
    IF decoded_path # <<>> /\ decoded_path[1] = 47 THEN Drop(decoded_path, 1) ELSE decoded_path

(***************************************************************************)
(* C17 (stated as claimed; the code violates it): relative-path            *)
(* derivation.  For every GET with a target, the path joined onto the root *)
(* is the decoded target with exactly one leading separator removed (empty *)
(* for the target /); a decoded target that does not begin with / - one    *)
(* that begins with a multi-byte character included - loses no other       *)
(* character, and the slicing step does not fail.                          *)
(***************************************************************************)
C17_OnlySeparatorRemoved ==
    (Dispatched /\ IsGetRequest /\ req.path # <<>>) =>
        /\ cause # "panic"
        /\ Attempted => target = Join(cwd, StripOneSeparator(decode_url_encoded(req.path)))

\* Everything written to the connection, in order.
Stream == Concat([i \in 1..Len(wire) |-> WriteBytes(wire[i])])

\* Where the blank line of the stream starts: the first CR LF CR LF.
BlankLineAt(bytes) ==
    LET at == {i \in 1..(Len(bytes) - 3) : SubSeq(bytes, i, i + 3) = <<13, 10, 13, 10>>}
    IN IF at = {} THEN 0 ELSE Min(at)

StatusLines ==
    {S(<<"H", "T", "T", "P", "/", "1", ".", "1", " ", "2", "0", "0", " ", "O", "K">>),
     S(<<"H", "T", "T", "P", "/", "1", ".", "1", " ", "4", "0", "3", " ", "F", "o", "r", "b", "i", "d", "d", "e", "n">>),
     S(<<"H", "T", "T", "P", "/", "1", ".", "1", " ", "4", "0", "4", " ", "N", "o", "t", " ", "F", "o", "u", "n", "d">>),
     S(<<"H", "T", "T", "P", "/", "1", ".", "1", " ", "4", "0", "5", " ", "M", "e", "t", "h", "o", "d", " ", "N", "o", "t", " ", "A", "l", "l", "o", "w", "e", "d">>),
     S(<<"H", "T", "T", "P", "/", "1", ".", "1", " ", "5", "0", "0", " ", "I", "n", "t", "e", "r", "n", "a", "l", " ", "S", "e", "r", "v", "e", "r", " ", "E", "r", "r", "o", "r">>)}

ContentTypeName == S(<<"C", "o", "n", "t", "e", "n", "t", "-", "T", "y", "p", "e", ":", " ">>)
ContentLengthName == S(<<"C", "o", "n", "t", "e", "n", "t", "-", "L", "e", "n", "g", "t", "h", ":", " ">>)

RECURSIVE DecimalValue(_)
DecimalValue(digits) ==
    IF digits = <<>> THEN 0
    ELSE 10 * DecimalValue(Take(digits, Len(digits) - 1)) + (digits[Len(digits)] - 48)

\* The lines before the blank line, and what follows it.
HeadOf(bytes) == Take(bytes, BlankLineAt(bytes) - 1)
BodyOf(bytes) == Drop(bytes, BlankLineAt(bytes) + 3)
LineEnds(head) == {i \in 1..(Len(head) - 1) : head[i] = 13 /\ head[i + 1] = 10}

\* The stream starts with a status line, a Content-Type header and a
\* Content-Length header with a decimal value, then a blank line, and has no
\* other header.
WellFramed(bytes) ==
    /\ BlankLineAt(bytes) > 0
    /\ LET head == HeadOf(bytes)
           ends == LineEnds(head)
       IN /\ Cardinality(ends) = 2
          /\ LET first == Min(ends)
                 second == CHOOSE i \in ends : i # first
                 status_line == SubSeq(head, 1, first - 1)
                 type_line == SubSeq(head, first + 2, second - 1)
                 length_line == SubSeq(head, second + 2, Len(head))
                 digits == Drop(length_line, Len(ContentLengthName))
             IN /\ status_line \in StatusLines
                /\ IsPrefix(ContentTypeName, type_line)
                /\ Len(type_line) > Len(ContentTypeName)
                /\ IsPrefix(ContentLengthName, length_line)
                /\ digits # <<>>
                /\ \A i \in 1..Len(digits) : 48 <= digits[i] /\ digits[i] <= 57

\* The value of the Content-Length header of a well-framed stream.
DeclaredLength(bytes) ==
    LET head == HeadOf(bytes)
        second == CHOOSE i \in LineEnds(head) : \A j \in LineEnds(head) : j <= i
    IN DecimalValue(Drop(SubSeq(head, second + 2, Len(head)), Len(ContentLengthName)))

(***************************************************************************)
(* C18: response framing.  Whatever has been written to a connection       *)
(* starts with a status line - one of 200 OK, 403 Forbidden, 404 Not       *)
(* Found, 405 Method Not Allowed, 500 Internal Server Error - followed by  *)
(* a Content-Type header, a Content-Length header and a blank line, with   *)
(* no other header; and when the handler has returned Ok the value of      *)
(* Content-Length is the number of bytes (not characters) of the body that *)
(* follows the blank line.                                                 *)
(***************************************************************************)
C18_ResponseFraming ==
    /\ wire # <<>> => WellFramed(Stream)
    /\ result = "Ok" =>
        /\ WellFramed(Stream)
        /\ DeclaredLength(Stream) = Len(BodyOf(Stream))

\* The listing of the root, which names a file with a two-byte character, was
\* written with its length in bytes; a file was written as head and content.
C18_Witness ==
    /\ pc = "Responded"
    /\ Canon.ok /\ Canon.path = <<nSrv>>
    /\ Len(wire) = 1 /\ wire[1].status = "200 OK"
    /\ \E i \in 1..Len(wire[1].body) : wire[1].body[i] > 127
    /\ DeclaredLength(Stream) = Len(wire[1].body)

\* The branch the dispatcher took for the current connection.
Branch == IF Len(phases) >= 3 THEN phases[3] ELSE "none"

(***************************************************************************)
(* C19: entry-type dispatch.  A GET whose target resolves inside the root  *)
(* to an entry that is neither a directory nor a regular file is rejected  *)
(* with 404 Not Found (the response on the connection unless the write     *)
(* fails); a directory always goes to the directory lister and a regular   *)
(* file always to file serving; the three cases exclude one another: the   *)
(* lister never runs for a non-directory, file serving never for a         *)
(* non-file.                                                               *)
(***************************************************************************)
C19_EntryTypeDispatch ==
    /\ ResolvesInside("special") =>
        /\ Branch = "Rejecting" /\ pending = "404 Not Found"
        /\ \A i \in 1..Len(log) : log[i] \notin {"read_dir", "fs_read"}
        /\ Finished => (Answered("404 Not Found") \/ WriteFailed)
    /\ ResolvesInside("dir") =>
        /\ Branch = "ListingDirectory"
        /\ \A i \in 1..Len(log) : log[i] \notin {"is_file", "fs_read"}
    /\ ResolvesInside("file") =>
        /\ Branch = "ServingFile"
        /\ \A i \in 1..Len(log) : log[i] # "read_dir"
    /\ Branch = "ListingDirectory" => ResolvesInside("dir")
    /\ Branch = "ServingFile" => ResolvesInside("file")

\* The special file /f was requested and answered 404.
C19_Witness ==
    /\ pc = "Responded"
    /\ ResolvesInside("special")
    /\ Canon.path = <<nSrv, S(<<"f">>)>>
    /\ Answered("404 Not Found")

\* The operations that change nothing outside the connection: reads of the
\* filesystem and of the working directory, and the traffic of the connection.
ReadOnlyOps ==
    {"read", "current_dir", "canonicalize", "is_dir", "is_file", "read_dir", "fs_read",
     "write", "flush"}

(***************************************************************************)
(* C20: read-only and stateless.  No step of handling a request, whatever  *)
(* its method, target or outcome, changes the filesystem or the root: the  *)
(* root stays the working directory of startup, every operation performed  *)
(* is a read or connection traffic, and a new connection starts from the   *)
(* same handler state whatever the connections before it did - the root    *)
(* and the filesystem are all it shares with them.                         *)
(***************************************************************************)
C20_ReadOnlyStateless ==
    [][/\ fs' = fs
       /\ cwd' = cwd
       /\ cwd' = <<47>> \o nSrv
       /\ \A i \in 1..Len(log') : log'[i] \in ReadOnlyOps
       /\ conn' # conn =>
            /\ req' = NoRequest /\ target' = <<>> /\ pending' = "none"
            /\ wire' = <<>> /\ log' = <<>> /\ result' = "none"]_vars

\* A second connection was served a file after a first one had been handled.
C20_Witness ==
    /\ conn = 2
    /\ pc = "Responded"
    /\ ResolvesInside("file")
    /\ Len(wire) = 2
    /\ cwd = <<47>> \o nSrv

====
